---------------------------- MODULE Spec2Model ----------------------------
(***************************************************************************)
(* Model of main.py: the LoanManager scoring engine                        *)
(* (calculate_credit_score, determine_interest_rate), the award strategy   *)
(* generator (generate_award_strategy), the assembler                      *)
(* (generate_game_input) and the experiment loop                           *)
(* (test_multiple_variations).                                             *)
(*                                                                         *)
(* Numbers.  The Python code computes with floats written as decimal       *)
(* literals (0.4, 0.05, 0.9 ...).  The model computes with exact rationals *)
(* <<n, d>> (d > 0, lowest terms); a decimal literal is the rational it    *)
(* denotes.  Float rounding is therefore not modelled.                     *)
(*                                                                         *)
(* Failures.  A Python function either returns a value or raises.  Every   *)
(* modelled function returns Ok(v) or Raise(e).                            *)
(*                                                                         *)
(* Records.  A customer is a function from field names to values; a field  *)
(* the JSON record lacks is a name outside its DOMAIN, and reading it      *)
(* raises KeyError.                                                        *)
(***************************************************************************)
EXTENDS Integers, Sequences, FiniteSets, TLC

VARIABLES
    call,           \* the direct call of an engine function: arguments and outcome
    rate_calls,     \* the evaluations of determine_interest_rate of a direct call, newest first
    caller,         \* the function that calls generate_game_input
    map_data,       \* self.map_data, loaded once by __init__ and never mutated
    pc,             \* position of the running function
    game_input,     \* local game_input of generate_game_input / test_multiple_variations
    month,          \* loop variable of the iterations loop (generate_game_input)
    cust_idx,       \* number of customers the proposals loop has processed
    generated,      \* history: what generate_award_strategy returned in the last month
                    \* processed, by customer index
    ret,            \* what the running top-level function handed back: value or exception
    num_variations, \* parameter of test_multiple_variations
    i,              \* loop variable of test_multiple_variations
    best_score,     \* local best_score
    best_input,     \* local best_input
    api_response,   \* local api_response
    submitted,      \* history: one entry per submit_to_api call that returned
    attempts        \* history: number of submit_to_api calls made so far

fnVars   == <<call, rate_calls>>
genVars  == <<caller, map_data, pc, game_input, month, cust_idx, generated, ret>>
loopVars == <<num_variations, i, best_score, best_input, api_response, submitted, attempts>>
vars     == <<call, rate_calls, caller, map_data, pc, game_input, month, cust_idx, generated, ret,
              num_variations, i, best_score, best_input, api_response, submitted, attempts>>

-----------------------------------------------------------------------------
(* Outcomes of a call *)

Ok(v)    == [ok |-> TRUE, val |-> v]
Raise(e) == [ok |-> FALSE, err |-> e]

\* Python's None
None == [none |-> TRUE]

-----------------------------------------------------------------------------
(* Exact rational arithmetic standing for the float arithmetic *)

Abs(n) == IF n < 0 THEN -n ELSE n

RECURSIVE GCD(_, _)
GCD(a, b) == IF b = 0 THEN a ELSE GCD(b, a % b)

\* n/d in lowest terms with a positive denominator (d # 0)
Rat(n, d) ==
    LET s == IF d < 0 THEN -1 ELSE 1
        g == GCD(Abs(n), Abs(d))
    IN  <<(s * n) \div g, (s * d) \div g>>

Int2Rat(n)    == <<n, 1>>
RAdd(a, b)    == Rat(a[1] * b[2] + b[1] * a[2], a[2] * b[2])
RSub(a, b)    == Rat(a[1] * b[2] - b[1] * a[2], a[2] * b[2])
RMul(a, b)    == Rat(a[1] * b[1], a[2] * b[2])
RLess(a, b)   == a[1] * b[2] < b[1] * a[2]
RLeq(a, b)    == a[1] * b[2] <= b[1] * a[2]
\* Python's max(a, b) and min(a, b): the first argument unless the second is
\* strictly larger (smaller)
RMax(a, b)    == IF RLess(a, b) THEN b ELSE a
RMin(a, b)    == IF RLess(b, a) THEN b ELSE a
\* Python's a / b: ZeroDivisionError when b is 0
RDiv(a, b)    == IF b[1] = 0 THEN Raise("ZeroDivisionError")
                 ELSE Ok(Rat(a[1] * b[2], a[2] * b[1]))

Zero == Int2Rat(0)
One  == Int2Rat(1)

-----------------------------------------------------------------------------
(* LoanManager.__init__: the personality table *)

personality_weights ==
    [Conservative |-> [interest_sensitivity |-> Rat(8, 10),
                       environmental_bonus  |-> Rat(3, 10),
                       award_preference     |-> <<"IkeaCheck", "HalfInterestRate">>],
     RiskTaker    |-> [interest_sensitivity |-> Rat(4, 10),
                       environmental_bonus  |-> Rat(5, 10),
                       award_preference     |-> <<"GiftCard", "NoInterestRate">>],
     Innovative   |-> [interest_sensitivity |-> Rat(6, 10),
                       environmental_bonus  |-> Rat(8, 10),
                       award_preference     |-> <<"IkeaDeliveryCheck", "GiftCard">>],
     Practical    |-> [interest_sensitivity |-> Rat(7, 10),
                       environmental_bonus  |-> Rat(6, 10),
                       award_preference     |-> <<"IkeaFoodCoupon", "HalfInterestRate">>],
     Spontaneous  |-> [interest_sensitivity |-> Rat(5, 10),
                       environmental_bonus  |-> Rat(4, 10),
                       award_preference     |-> <<"GiftCard", "IkeaCheck">>]]

Personalities == DOMAIN personality_weights

\* d[key] of a Python dict: KeyError when the key is absent
Has(d, key) == key \in DOMAIN d

-----------------------------------------------------------------------------
(* LoanManager.calculate_credit_score *)

\* Faulty variant of debt_ratio: the division without the income > 0 guard
debt_ratio_unguarded(customer) ==
    IF ~Has(customer, "homeMortgage") THEN Raise("KeyError")
    ELSE RDiv(Int2Rat(customer["homeMortgage"]), Int2Rat(customer["income"]))

\* line 59: homeMortgage / income if income > 0 else 1.  homeMortgage is read
\* only in the first branch.
debt_ratio(customer) ==
    IF customer["income"] > 0
    THEN IF ~Has(customer, "homeMortgage") THEN Raise("KeyError")
         ELSE RDiv(Int2Rat(customer["homeMortgage"]), Int2Rat(customer["income"]))
    ELSE Ok(One)

calculate_credit_score(customer) ==
    IF ~Has(customer, "income") \/ ~Has(customer, "monthlyExpenses")
    THEN Raise("KeyError")
    ELSE
    LET monthly_disposable == customer["income"] - customer["monthlyExpenses"]
        ratio == debt_ratio(customer)
    IN  IF ~ratio.ok THEN ratio
        ELSE IF ~Has(customer, "capital") \/ ~Has(customer, "hasStudentLoan")
                \/ ~Has(customer, "numberOfKids")
        THEN Raise("KeyError")
        ELSE
        LET base0 == RAdd(RAdd(RMul(Int2Rat(monthly_disposable), Rat(4, 10)),
                               RMul(Int2Rat(customer["capital"]), Rat(3, 10))),
                          RMul(Int2Rat(customer["income"]), Rat(3, 10)))
            base1 == IF customer["hasStudentLoan"] THEN RMul(base0, Rat(9, 10)) ELSE base0
            base2 == RMul(base1,
                          RSub(One, RMul(Int2Rat(customer["numberOfKids"]), Rat(5, 100))))
            base3 == RMul(base2, RSub(One, ratio.val))
        IN  Ok(base3)

-----------------------------------------------------------------------------
(* LoanManager.determine_interest_rate *)

\* Faulty variant of final_rate: the impact compared with >= 50 instead of > 50
final_rate_impact_ge(customer, credit_score) ==
    IF ~Has(customer, "personality") THEN Raise("KeyError")
    ELSE IF ~Has(customer, "loan") THEN Raise("KeyError")
    ELSE IF ~Has(customer["loan"], "environmentalImpact") THEN Raise("KeyError")
    ELSE IF ~Has(personality_weights, customer["personality"]) THEN Raise("KeyError")
    ELSE
    LET credit_adjustment == RMax(Zero, RMul(RSub(Int2Rat(1000), credit_score),
                                             Rat(1, 10000)))
        env_adjustment    == IF customer["loan"]["environmentalImpact"] >= 50
                             THEN Rat(1, 100) ELSE Rat(-1, 100)
    IN  Ok(RMul(RAdd(RAdd(Rat(5, 100), credit_adjustment), env_adjustment),
                personality_weights[customer["personality"]].interest_sensitivity))

\* lines 76-90: final_rate before the clamp of line 93
final_rate(customer, credit_score) ==
    IF ~Has(customer, "personality") THEN Raise("KeyError")
    ELSE IF ~Has(customer, "loan") THEN Raise("KeyError")
    ELSE IF ~Has(customer["loan"], "environmentalImpact") THEN Raise("KeyError")
    ELSE IF ~Has(personality_weights, customer["personality"]) THEN Raise("KeyError")
    ELSE
    LET base_rate          == Rat(5, 100)
        credit_adjustment  == RMax(Zero, RMul(RSub(Int2Rat(1000), credit_score),
                                              Rat(1, 10000)))
        env_impact         == customer["loan"]["environmentalImpact"]
        env_adjustment     == IF env_impact > 50 THEN Rat(1, 100) ELSE Rat(-1, 100)
        personality_factor == personality_weights[customer["personality"]].interest_sensitivity
    IN  Ok(RMul(RAdd(RAdd(base_rate, credit_adjustment), env_adjustment),
                personality_factor))

\* Faulty variant of clamp: the upper bound forgotten
clamp_lower_only(rate) == RMax(Rat(2, 100), rate)

\* line 93: max(0.02, min(0.15, final_rate))
clamp(rate) == RMax(Rat(2, 100), RMin(Rat(15, 100), rate))

determine_interest_rate(customer, credit_score) ==
    LET r == final_rate(customer, credit_score)
    IN  IF r.ok THEN Ok(clamp(r.val)) ELSE r

-----------------------------------------------------------------------------
(* LoanManager.generate_award_strategy *)

\* Faulty variant of below_fraction: <= instead of <
below_fraction_or_equal(mon, total_months, tenths) == 10 * mon <= tenths * total_months

\* month < total_months * fraction, for fraction = tenths/10 written as a
\* decimal literal (0.3, 0.7).  The float product total_months * 0.3 (or 0.7)
\* is never above the exact product and never below the next smaller integer,
\* so the comparison with the integer month decides as the exact one does.
below_fraction(mon, total_months, tenths) == 10 * mon < tenths * total_months

\* lines 99-107: the award chance of the month's phase, in hundredths
award_chance(mon, total_months) ==
    IF below_fraction(mon, total_months, 3) THEN 70
    ELSE IF below_fraction(mon, total_months, 7) THEN 50
    ELSE 30

\* Faulty variant of award_decision: the award is drawn before the chance is tested
\* and stays in the Skip action
award_decision_keeps_award(preferred_awards, chance, u, pick) ==
    [Type  |-> IF u < chance THEN "Award" ELSE "Skip",
     Award |-> preferred_awards[pick]]

\* lines 109-117.  u is the value np.random.random() returns, in hundredths;
\* pick is the index np.random.choice draws in preferred_awards.
award_decision(preferred_awards, chance, u, pick) ==
    IF u < chance
    THEN [Type |-> "Award", Award |-> preferred_awards[pick]]
    ELSE [Type |-> "Skip", Award |-> "None"]

generate_award_strategy(customer, mon, total_months, u, pick) ==
    IF ~Has(customer, "personality") THEN Raise("KeyError")
    ELSE IF ~Has(personality_weights, customer["personality"]) THEN Raise("KeyError")
    ELSE
    LET preferred_awards == personality_weights[customer["personality"]].award_preference
    IN  Ok(award_decision(preferred_awards, award_chance(mon, total_months), u, pick))

\* The values np.random.random() is drawn from, in hundredths: one in each
\* interval the three chances cut [0, 1) into, each at the interval's lower end.
URange == {0, 30, 50, 70}

\* The indexes np.random.choice draws from (every award_preference has 2 entries)
PickRange == {1, 2}

-----------------------------------------------------------------------------
(* Customer records *)

Customer(name, income, monthlyExpenses, capital, homeMortgage, hasStudentLoan, numberOfKids, personality, environmentalImpact) ==
    [name |-> name, income |-> income, monthlyExpenses |-> monthlyExpenses,
     capital |-> capital, homeMortgage |-> homeMortgage,
     hasStudentLoan |-> hasStudentLoan, numberOfKids |-> numberOfKids,
     personality |-> personality,
     loan |-> [environmentalImpact |-> environmentalImpact]]

\* The record without one of its fields
Without(rec, field) == [f \in DOMAIN rec \ {field} |-> rec[f]]

\* Customers for the direct calls of calculate_credit_score: income negative,
\* zero and positive; a mortgage below, at and above the income; more than 20
\* kids.
Incomes   == {-1000, 0, 1000, 4000}
Expenses  == {0, 500}
Capitals  == {0, 5000}
Mortgages == {0, 1000, 8000}
Kids      == {0, 2, 21}
Impacts   == {0, 49, 50, 51, 60}

FnCustomers ==
    {Customer("a", inc, ex, cap, mo, sl, kids, "Conservative", 60) :
        inc \in Incomes, ex \in Expenses, cap \in Capitals, mo \in Mortgages,
        sl \in BOOLEAN, kids \in Kids}

\* Customers for the direct calls of determine_interest_rate: every
\* personality, impacts on both sides of 50
RateCustomers ==
    {Customer("a", 1000, 500, 5000, 0, FALSE, 0, p, env) :
        p \in Personalities, env \in Impacts}

\* Credit scores for the direct calls of determine_interest_rate
Scores == {Int2Rat(-100000), Int2Rat(-1), Zero, Rat(1999, 2), Int2Rat(1000),
           Int2Rat(1500), Int2Rat(100000)}

\* Largest total_months of a direct generate_award_strategy call
MaxTotalMonths == 10

-----------------------------------------------------------------------------
(* The engine functions called directly.  Init draws the arguments, the    *)
(* actions apply the function.  determine_interest_rate is called a second *)
(* time for the same customer with another environmentalImpact.            *)

\* The parts of the state a direct call does not use
GenIdle ==
    /\ caller = "none" /\ map_data = None /\ pc = "fn" /\ game_input = None
    /\ month = 0 /\ cust_idx = 0 /\ generated = None /\ ret = None
LoopIdle ==
    /\ num_variations = 0 /\ i = 0 /\ best_score = None /\ best_input = None
    /\ api_response = None /\ submitted = <<>> /\ attempts = 0

\* No engine function is called directly
NoCall == [fn |-> "none", result |-> None]

CreditScoreCalls ==
    {[fn |-> "calculate_credit_score", customer |-> c, result |-> None] :
        c \in FnCustomers}

InterestRateCalls ==
    {[fn |-> "determine_interest_rate", customer |-> c, credit_score |-> s,
      result |-> None] : c \in RateCustomers, s \in Scores}

AwardStrategyCalls ==
    {[fn |-> "generate_award_strategy", customer |-> c, month |-> m[1],
      total_months |-> m[2], u |-> u, pick |-> pick, result |-> None] :
        c \in {rc \in RateCustomers : rc["loan"]["environmentalImpact"] = 60},
        m \in {mt \in (0..MaxTotalMonths) \X (1..MaxTotalMonths) : mt[1] < mt[2]},
        u \in URange, pick \in PickRange}

InitFn ==
    /\ call \in CreditScoreCalls \cup InterestRateCalls \cup AwardStrategyCalls
    /\ rate_calls = <<>>
    /\ GenIdle
    /\ LoopIdle

CallCalculateCreditScore ==
    /\ call.fn = "calculate_credit_score"
    /\ call.result = None
    /\ call' = [call EXCEPT !.result = calculate_credit_score(call.customer)]
    /\ UNCHANGED <<rate_calls, genVars, loopVars>>

\* One evaluation of determine_interest_rate, with the local final_rate
RateCall(c, s) ==
    [customer |-> c, credit_score |-> s, final_rate |-> final_rate(c, s),
     result |-> determine_interest_rate(c, s)]

CallDetermineInterestRate ==
    /\ call.fn = "determine_interest_rate"
    /\ call.result = None
    /\ LET r == RateCall(call.customer, call.credit_score)
       IN  /\ call' = [call EXCEPT !.result = r.result]
           /\ rate_calls' = <<r>>
    /\ UNCHANGED <<genVars, loopVars>>

\* The same customer and credit score, all else equal, with another impact
CallDetermineInterestRateAgain ==
    /\ call.fn = "determine_interest_rate"
    /\ Len(rate_calls) = 1
    /\ \E env \in Impacts :
          LET c == [call.customer EXCEPT !["loan"]["environmentalImpact"] = env]
          IN  rate_calls' = <<RateCall(c, call.credit_score)>> \o rate_calls
    /\ UNCHANGED <<call, genVars, loopVars>>

CallGenerateAwardStrategy ==
    /\ call.fn = "generate_award_strategy"
    /\ call.result = None
    /\ call' = [call EXCEPT !.result =
                   generate_award_strategy(call.customer, call.month,
                                           call.total_months, call.u, call.pick)]
    /\ UNCHANGED <<rate_calls, genVars, loopVars>>

-----------------------------------------------------------------------------
(* LoanManager.generate_game_input *)

\* Faulty variant of proposal: a missing name is replaced by a default
\* (customer.get('name', 'Unknown')) instead of raising
proposal_default_name(md, customer) ==
    LET credit_score == calculate_credit_score(customer)
    IN  IF ~credit_score.ok THEN credit_score
        ELSE LET interest_rate == determine_interest_rate(customer, credit_score.val)
             IN  IF ~interest_rate.ok THEN interest_rate
                 ELSE Ok([CustomerName        |-> IF Has(customer, "name")
                                                  THEN customer["name"] ELSE "Unknown",
                          MonthsToPayBackLoan |-> md.gameLengthInMonths,
                          YearlyInterestRate  |-> interest_rate.val])

\* lines 128-135: the proposal of one customer
proposal(md, customer) ==
    LET credit_score == calculate_credit_score(customer)
    IN  IF ~credit_score.ok THEN credit_score
        ELSE LET interest_rate == determine_interest_rate(customer, credit_score.val)
             IN  IF ~interest_rate.ok THEN interest_rate
                 ELSE IF ~Has(customer, "name") THEN Raise("KeyError")
                 ELSE Ok([CustomerName        |-> customer["name"],
                          MonthsToPayBackLoan |-> md.gameLengthInMonths,
                          YearlyInterestRate  |-> interest_rate.val])

\* d[key] = val on a Python dict: a key already present is overwritten
DictSet(d, key, val) == [x \in DOMAIN d \cup {key} |-> IF x = key THEN val ELSE d[x]]

\* The empty dict {}
EmptyDict == [x \in {} |-> x]

\* The values np.random.random() is drawn from in generate_game_input: below
\* every chance, between the mid and the early chance, above every chance
GenURange == {0, 50, 70}

\* The random draws of one generate_award_strategy call
Draws == [u : GenURange, pick : PickRange]

\* lines 142-146: the decision generate_award_strategy returns for the k-th
\* customer in month mon
strategy(md, k, mon, draws) ==
    generate_award_strategy(md.customers[k], mon, md.gameLengthInMonths,
                            draws[k].u, draws[k].pick)

\* Faulty variant of month_actions: the loop stops one customer early
RECURSIVE month_actions_skip_last(_, _, _, _, _)
month_actions_skip_last(md, k, mon, draws, acc) ==
    IF k >= Len(md.customers) THEN Ok(acc)
    ELSE LET s == strategy(md, k, mon, draws)
         IN  IF ~s.ok THEN s
             ELSE month_actions_skip_last(md, k + 1, mon, draws,
                                          DictSet(acc, md.customers[k]["name"], s.val))

\* lines 140-146: month_actions after the customers k.. of the map, starting
\* from the dict acc; draws[k] are the random draws of the k-th customer
RECURSIVE month_actions(_, _, _, _, _)
month_actions(md, k, mon, draws, acc) ==
    IF k > Len(md.customers) THEN Ok(acc)
    ELSE LET s == strategy(md, k, mon, draws)
         IN  IF ~s.ok THEN s
             ELSE IF ~Has(md.customers[k], "name") THEN Raise("KeyError")
             ELSE month_actions(md, k + 1, mon, draws,
                                DictSet(acc, md.customers[k]["name"], s.val))

\* line 120-124
NewGameInput(md) == [MapName |-> md.name, Proposals |-> <<>>, Iterations |-> <<>>]

\* Faulty variant of GenProposal: the proposal is inserted at the head of the list
GenProposal_prepend ==
    /\ pc = "generate"
    /\ cust_idx < Len(map_data.customers)
    /\ LET p == proposal(map_data, map_data.customers[cust_idx + 1])
       IN  IF p.ok
           THEN /\ game_input' = [game_input EXCEPT
                                     !.Proposals = <<p.val>> \o @]
                /\ cust_idx' = cust_idx + 1
                /\ UNCHANGED <<pc, ret>>
           ELSE /\ pc' = "raised"
                /\ ret' = p
                /\ UNCHANGED <<game_input, cust_idx>>
    /\ UNCHANGED <<caller, map_data, month, generated, fnVars, loopVars>>

\* lines 127-136, one pass of the loop: the proposal of the next customer is
\* appended, or its exception leaves the function
GenProposal ==
    /\ pc = "generate"
    /\ cust_idx < Len(map_data.customers)
    /\ LET p == proposal(map_data, map_data.customers[cust_idx + 1])
       IN  IF p.ok
           THEN /\ game_input' = [game_input EXCEPT
                                     !.Proposals = Append(@, p.val)]
                /\ cust_idx' = cust_idx + 1
                /\ UNCHANGED <<pc, ret>>
           ELSE /\ pc' = "raised"
                /\ ret' = p
                /\ UNCHANGED <<game_input, cust_idx>>
    /\ UNCHANGED <<caller, map_data, month, generated, fnVars, loopVars>>

\* lines 139-147, one pass of the loop: the decisions of month `month` for
\* every customer are collected in a dict and appended
GenMonth ==
    /\ pc = "generate"
    /\ cust_idx = Len(map_data.customers)
    /\ month < map_data.gameLengthInMonths
    /\ \E draws \in [1..Len(map_data.customers) -> Draws] :
          LET actions == month_actions(map_data, 1, month, draws, EmptyDict)
          IN  IF actions.ok
              THEN /\ game_input' = [game_input EXCEPT
                                        !.Iterations = Append(@, actions.val)]
                   /\ generated' = [month |-> month,
                                    strategies |->
                                       [k \in 1..Len(map_data.customers) |->
                                           strategy(map_data, k, month, draws).val]]
                   /\ month' = month + 1
                   /\ UNCHANGED <<pc, ret>>
              ELSE /\ pc' = "raised"
                   /\ ret' = actions
                   /\ UNCHANGED <<game_input, generated, month>>
    /\ UNCHANGED <<caller, map_data, cust_idx, fnVars, loopVars>>

\* line 149: return game_input.  main (line 198) keeps it; in
\* test_multiple_variations (line 176) it is the variation's game_input and
\* the loop goes on to submit it.
GenReturn ==
    /\ pc = "generate"
    /\ cust_idx = Len(map_data.customers)
    /\ month >= map_data.gameLengthInMonths
    /\ IF caller = "main"
       THEN pc' = "returned" /\ ret' = Ok(game_input)
       ELSE pc' = "submit" /\ UNCHANGED ret
    /\ UNCHANGED <<caller, map_data, game_input, month, cust_idx, generated,
                   fnVars, loopVars>>

-----------------------------------------------------------------------------
(* SpecManager: the methods of LoanManager, each called on its own: the    *)
(* engine functions with drawn arguments, and generate_game_input as       *)
(* main() calls it on the loaded map                                       *)

\* The customer of the worked example and a customer without income
c1 == Customer("a", 30000, 20000, 5000, 10000, TRUE, 2, "Conservative", 60)
c2 == Customer("b", 0, 500, 2000, 0, FALSE, 1, "RiskTaker", 40)

\* Customer records of a map file: c1 complete, c1 without one field, c1
\* with a personality outside the table, and c2 without homeMortgage.  Two
\* records of a map may carry the same name.
CustomerPool ==
    {c1}
    \cup {Without(c1, f) : f \in DOMAIN c1}
    \cup {[c1 EXCEPT !["loan"] = Without(c1["loan"], "environmentalImpact")]}
    \cup {[c1 EXCEPT !["personality"] = "Unknown"]}
    \cup {Without(c2, "homeMortgage")}

\* Bounds of the maps
MaxCustomers == 2
MaxMonths    == 2

SeqsUpTo(S, n) == UNION {[1..len -> S] : len \in 0..n}

Maps ==
    {[name |-> "Gothenburg", gameLengthInMonths |-> m, customers |-> cs] :
        m \in 0..MaxMonths, cs \in SeqsUpTo(CustomerPool, MaxCustomers)}

\* The state at the call of generate_game_input
GenEntry(md) ==
    /\ map_data = md
    /\ game_input = NewGameInput(md)
    /\ month = 0
    /\ cust_idx = 0
    /\ generated = None

InitGen ==
    /\ caller = "main"
    /\ pc = "generate"
    /\ \E md \in Maps : GenEntry(md)
    /\ ret = None
    /\ call = NoCall /\ rate_calls = <<>>
    /\ LoopIdle

InitManager == InitFn \/ InitGen

NextManager ==
    \/ CallCalculateCreditScore
    \/ CallDetermineInterestRate
    \/ CallDetermineInterestRateAgain
    \/ CallGenerateAwardStrategy
    \/ GenProposal
    \/ GenMonth
    \/ GenReturn

SpecManager == InitManager /\ [][NextManager]_vars

-----------------------------------------------------------------------------
(* test_multiple_variations *)

\* float('-inf') and the scores of the API, as floats of the loop
NegInf   == [inf |-> TRUE]
Num(n)   == [inf |-> FALSE, v |-> n]

\* a > b for a score a of the API and the float b
Greater(a, b) == IF b.inf THEN TRUE ELSE a > b.v

\* line 172: best_score = float('-inf')
InitialBestScore == NegInf

\* Faulty variant of IsBetter: >= instead of >
IsBetter_or_equal(response, best) ==
    Has(response, "score")
    /\ (Greater(response["score"], best) \/ response["score"] = best.v)

\* line 179: 'score' in api_response and api_response['score'] > best_score
IsBetter(response, best) ==
    Has(response, "score") /\ Greater(response["score"], best)

\* What the scoring API answers: a JSON object with a score or without one
ScoreRange == {-1, 2}
Responses  == {[score |-> sc] : sc \in ScoreRange} \cup {[message |-> "rejected"]}

\* lines 175-176: the next variation starts with the call of generate_game_input
LoopGenerate ==
    /\ pc = "loop"
    /\ i < num_variations
    /\ pc' = "generate"
    /\ game_input' = NewGameInput(map_data)
    /\ month' = 0
    /\ cust_idx' = 0
    /\ generated' = None
    /\ UNCHANGED <<caller, map_data, ret, fnVars, loopVars>>

\* line 177 with submit_to_api, lines 153-165: the POST is answered and the
\* parsed JSON is the variation's api_response
SubmitReturns ==
    /\ pc = "submit"
    /\ \E response \in Responses :
          /\ api_response' = response
          /\ submitted' = Append(submitted, [variation  |-> i + 1,
                                             game_input |-> game_input,
                                             response   |-> response])
    /\ attempts' = attempts + 1
    /\ pc' = "compare"
    /\ UNCHANGED <<caller, map_data, game_input, month, cust_idx, generated, ret,
                   num_variations, i, best_score, best_input, fnVars>>

\* Faulty variant of SubmitRaises: the loop catches the error and goes on with the
\* next variation
SubmitRaises_suppressed ==
    /\ pc = "submit"
    /\ attempts' = attempts + 1
    /\ pc' = "loop"
    /\ i' = i + 1
    /\ UNCHANGED <<caller, map_data, game_input, month, cust_idx, generated, ret,
                   num_variations, best_score, best_input, api_response,
                   submitted, fnVars>>

\* line 177 with submit_to_api, lines 166-168: the request fails, the handler
\* prints and re-raises, and test_multiple_variations has no handler
SubmitRaises ==
    /\ pc = "submit"
    /\ attempts' = attempts + 1
    /\ pc' = "raised"
    /\ ret' = Raise("SubmissionError")
    /\ UNCHANGED <<caller, map_data, game_input, month, cust_idx, generated,
                   num_variations, i, best_score, best_input, api_response,
                   submitted, fnVars>>

\* lines 179-183 and the loop's increment
Compare ==
    /\ pc = "compare"
    /\ IF IsBetter(api_response, best_score)
       THEN /\ best_score' = Num(api_response["score"])
            /\ best_input' = game_input
       ELSE UNCHANGED <<best_score, best_input>>
    /\ i' = i + 1
    /\ pc' = "loop"
    /\ UNCHANGED <<caller, map_data, game_input, month, cust_idx, generated, ret,
                   num_variations, api_response, submitted, attempts, fnVars>>

\* lines 185-190: the loop is over; best_input is saved and returned
LoopReturn ==
    /\ pc = "loop"
    /\ i >= num_variations
    /\ pc' = "returned"
    /\ ret' = Ok([best_input |-> best_input, best_score |-> best_score])
    /\ UNCHANGED <<caller, map_data, game_input, month, cust_idx, generated,
                   loopVars, fnVars>>

\* Bounds of the experiment: num_variations and the game length of its maps
MaxVariations == 2
LoopMonths    == 1

\* The maps of the experiment: one customer, complete or lacking a field
LoopMaps ==
    {[name |-> "Gothenburg", gameLengthInMonths |-> m, customers |-> <<c>>] :
        m \in 0..LoopMonths, c \in {c1, Without(c1, "capital")}}

Init ==
    /\ caller = "test_multiple_variations"
    /\ pc = "loop"
    /\ map_data \in LoopMaps
    /\ game_input = None
    /\ month = 0 /\ cust_idx = 0 /\ generated = None
    /\ ret = None
    /\ num_variations \in 0..MaxVariations
    /\ i = 0
    /\ best_score = InitialBestScore
    /\ best_input = None
    /\ api_response = None
    /\ submitted = <<>>
    /\ attempts = 0
    /\ call = NoCall /\ rate_calls = <<>>

Next ==
    \/ LoopGenerate
    \/ GenProposal
    \/ GenMonth
    \/ GenReturn
    \/ SubmitReturns
    \/ SubmitRaises
    \/ Compare
    \/ LoopReturn

Spec == Init /\ [][Next]_vars

-----------------------------------------------------------------------------
(* Properties *)

\* The map's customers, their number and the game length
Customers == map_data.customers
NCustomers == Len(map_data.customers)
GameLength == map_data.gameLengthInMonths

\* generate_game_input is running or has finished, called by main
InGenerate == caller = "main"

\* The names of the customers, and the last customer carrying a name
CustomerNames == {Customers[k]["name"] : k \in 1..NCustomers}
LastWithName(n) ==
    CHOOSE k \in 1..NCustomers :
        /\ Customers[k]["name"] = n
        /\ \A j \in (k + 1)..NCustomers : Customers[j]["name"] # n

RateInBounds(r) == RLeq(Rat(2, 100), r) /\ RLeq(r, Rat(15, 100))

\* C1: determine_interest_rate returns a rate in [0.02, 0.15] for every
\* personality, impact and credit score (positive, zero or negative), and so
\* every YearlyInterestRate of the Proposals lies in [0.02, 0.15].
C1_RateInBounds ==
    /\ \A k \in 1..Len(rate_calls) :
          rate_calls[k].result.ok /\ RateInBounds(rate_calls[k].result.val)
    /\ InGenerate =>
          \A k \in 1..Len(game_input.Proposals) :
             RateInBounds(game_input.Proposals[k].YearlyInterestRate)

\* A negative credit score whose unclamped rate is above 0.15 returns 0.15
C1_Witness ==
    /\ Len(rate_calls) >= 1
    /\ rate_calls[1].credit_score[1] < 0
    /\ RLess(Rat(15, 100), rate_calls[1].final_rate.val)
    /\ rate_calls[1].result = Ok(Rat(15, 100))

HighImpact(rc) == rc.customer["loan"]["environmentalImpact"] > 50

\* C3: of two determine_interest_rate evaluations for the same credit score
\* and customers equal in every field but loan.environmentalImpact, one
\* above 50 and one at or below 50, the one with the higher impact has the
\* strictly higher unclamped rate, for every personality.
C3_HigherImpactHigherRate ==
    Len(rate_calls) = 2 =>
       LET a == rate_calls[1]
           b == rate_calls[2]
       IN  /\ a.credit_score = b.credit_score
           /\ Without(a.customer, "loan") = Without(b.customer, "loan")
           /\ (HighImpact(a) /\ ~HighImpact(b)) =>
                 RLess(b.final_rate.val, a.final_rate.val)
           /\ (HighImpact(b) /\ ~HighImpact(a)) =>
                 RLess(a.final_rate.val, b.final_rate.val)

\* Impacts 51 and 49 whose rates differ before the clamp and agree after it
C3_Witness ==
    /\ Len(rate_calls) = 2
    /\ rate_calls[1].customer["loan"]["environmentalImpact"] = 51
    /\ rate_calls[2].customer["loan"]["environmentalImpact"] = 49
    /\ RLess(rate_calls[2].final_rate.val, rate_calls[1].final_rate.val)
    /\ rate_calls[1].result = rate_calls[2].result

\* The chance of the phase as the claim states it
PhaseChance(mon, total_months) ==
    IF 10 * mon < 3 * total_months THEN 70
    ELSE IF 10 * mon < 7 * total_months THEN 50
    ELSE 30

AwardCallDone == call.fn = "generate_award_strategy" /\ call.result # None

\* C8: the award chance is 0.7 when 10*month < 3*totalMonths, otherwise 0.5
\* when 10*month < 7*totalMonths, otherwise 0.3 (a month on a boundary is in
\* the next phase): the call awards exactly when the draw u is below that
\* chance, and the chance never increases over the later months.
C8_PhaseChance ==
    AwardCallDone =>
       /\ call.result.ok
       /\ award_chance(call.month, call.total_months)
             = PhaseChance(call.month, call.total_months)
       /\ call.result.val.Type = "Award"
             <=> call.u < PhaseChance(call.month, call.total_months)
       /\ \A later \in call.month..(call.total_months - 1) :
             award_chance(later, call.total_months)
                <= award_chance(call.month, call.total_months)

\* A month exactly on the early boundary is skipped by a draw of 0.5
C8_Witness ==
    /\ AwardCallDone
    /\ 10 * call.month = 3 * call.total_months
    /\ call.u = 50
    /\ call.result.val.Type = "Skip"

CreditScoreCallDone == call.fn = "calculate_credit_score" /\ call.result # None

\* C10: calculate_credit_score never divides by zero, and for a customer
\* whose income is 0 or negative it returns exactly 0 whatever the capital,
\* expenses, student loan and number of kids are.
C10_NoIncomeScoresZero ==
    CreditScoreCallDone =>
       /\ call.result # Raise("ZeroDivisionError")
       /\ call.customer["income"] <= 0 => call.result = Ok(Zero)

\* Income 0 with capital, a student loan and more than 20 kids scores 0
C10_Witness ==
    /\ CreditScoreCallDone
    /\ call.customer["income"] = 0
    /\ call.customer["capital"] > 0
    /\ call.customer["hasStudentLoan"]
    /\ call.customer["numberOfKids"] > 20
    /\ call.result = Ok(Zero)

Returned == InGenerate /\ pc = "returned"

\* C2 as stated: N proposals, M iteration entries, and N actions in every
\* entry, one per customer record.
C2_OnePerRecord ==
    Returned =>
       /\ Len(ret.val.Proposals) = NCustomers
       /\ Len(ret.val.Iterations) = GameLength
       /\ \A m \in 1..Len(ret.val.Iterations) :
             Cardinality(DOMAIN ret.val.Iterations[m]) = NCustomers

\* C2 (amended): on a map with N customers and gameLengthInMonths = M the
\* returned GameInput has exactly N proposals and exactly M iteration
\* entries, and every entry holds exactly one action per distinct customer
\* name: N actions when the names are pairwise distinct.
C2_OnePerName ==
    Returned =>
       /\ Len(ret.val.Proposals) = NCustomers
       /\ Len(ret.val.Iterations) = GameLength
       /\ \A m \in 1..Len(ret.val.Iterations) :
             /\ DOMAIN ret.val.Iterations[m] = CustomerNames
             /\ (\A j, k \in 1..NCustomers :
                    j # k => Customers[j]["name"] # Customers[k]["name"])
                => Cardinality(DOMAIN ret.val.Iterations[m]) = NCustomers

\* Two customers with different names, two months, two actions in each entry
C2_Witness ==
    /\ Returned
    /\ NCustomers = 2
    /\ GameLength = 2
    /\ Customers[1]["name"] # Customers[2]["name"]
    /\ \A m \in 1..2 : Cardinality(DOMAIN ret.val.Iterations[m]) = 2

\* The fields of a customer record (loan holds environmentalImpact)
RequiredFields ==
    {"name", "income", "monthlyExpenses", "capital", "homeMortgage",
     "hasStudentLoan", "numberOfKids", "personality", "loan"}

LacksImpact(c) == Has(c, "loan") /\ ~Has(c["loan"], "environmentalImpact")

LacksRequiredField(c) ==
    (\E f \in RequiredFields : ~Has(c, f)) \/ LacksImpact(c)

\* A required field the code reads for this customer is missing:
\* homeMortgage is read only when income > 0
LacksFieldRead(c) ==
    \/ \E f \in RequiredFields \ {"homeMortgage"} : ~Has(c, f)
    \/ LacksImpact(c)
    \/ Has(c, "income") /\ c["income"] > 0 /\ ~Has(c, "homeMortgage")

UnknownPersonality(c) ==
    Has(c, "personality") /\ ~Has(personality_weights, c["personality"])

Finished == InGenerate /\ pc \in {"returned", "raised"}

\* How a failure and a success reach the caller
FailsOrCompletes ==
    /\ pc = "raised" => ret = Raise("KeyError")
    /\ pc = "returned" =>
          /\ ret = Ok(game_input)
          /\ Len(ret.val.Proposals) = NCustomers
          /\ Len(ret.val.Iterations) = GameLength

C7_State ==
    (InGenerate /\ pc \in {"generate", "returned"}) =>
       /\ Len(game_input.Proposals) = cust_idx
       /\ \A k \in 1..Len(game_input.Proposals) :
             /\ game_input.Proposals[k].CustomerName = Customers[k]["name"]
             /\ game_input.Proposals[k].MonthsToPayBackLoan = GameLength
       /\ Len(game_input.Iterations) = month
       /\ generated # None =>
             /\ generated.month = month - 1
             /\ DOMAIN game_input.Iterations[month] = CustomerNames
             /\ \A n \in CustomerNames :
                   game_input.Iterations[month][n]
                      = generated.strategies[LastWithName(n)]
       /\ pc = "returned" =>
             cust_idx = NCustomers /\ month = GameLength /\ ret = Ok(game_input)

\* What C7 says of a step: entries are only appended
C7_Step ==
    (InGenerate /\ pc = "generate") =>
       /\ SubSeq(game_input'.Proposals, 1, Len(game_input.Proposals))
             = game_input.Proposals
       /\ SubSeq(game_input'.Iterations, 1, Len(game_input.Iterations))
             = game_input.Iterations
       /\ month' \in {month, month + 1}

\* C7: Proposals[i] carries the name of the i-th customer and the map's
\* gameLengthInMonths, and Iterations[m] holds the decisions generated for
\* month m (for each name, that of the last customer carrying it), for
\* m = 0..gameLengthInMonths-1 appended in ascending order without gaps.
C7_OrderPreserved == [](C7_State) /\ [][C7_Step]_vars

\* Two customers with different names and two months with different decisions
C7_Witness ==
    /\ Returned
    /\ NCustomers = 2
    /\ Customers[1]["name"] # Customers[2]["name"]
    /\ Len(game_input.Iterations) = 2
    /\ game_input.Iterations[1] # game_input.Iterations[2]

WellFormed(action, personality) ==
    \/ /\ action.Type = "Award"
       /\ \E j \in DOMAIN personality_weights[personality].award_preference :
             action.Award = personality_weights[personality].award_preference[j]
    \/ /\ action.Type = "Skip"
       /\ action.Award = "None"

\* C9: every action generate_award_strategy produces, and every action of
\* every entry of Iterations, is either an Award with one of the awards
\* preferred by the customer's own personality or a Skip with "None", for
\* every outcome of the random draws.
C9_ActionsWellFormed ==
    /\ AwardCallDone =>
          /\ call.result.ok
          /\ WellFormed(call.result.val, call.customer["personality"])
    /\ InGenerate =>
          \A m \in 1..Len(game_input.Iterations) :
             \A n \in DOMAIN game_input.Iterations[m] :
                WellFormed(game_input.Iterations[m][n],
                           Customers[LastWithName(n)]["personality"])

\* A returned GameInput with an Award for one customer and a Skip for the
\* other in the same month
C9_Witness ==
    /\ Returned
    /\ \E m \in 1..Len(game_input.Iterations) :
          \E n1, n2 \in DOMAIN game_input.Iterations[m] :
             /\ game_input.Iterations[m][n1].Type = "Award"
             /\ game_input.Iterations[m][n2] = [Type |-> "Skip", Award |-> "None"]

InLoop == caller = "test_multiple_variations"

\* The variations among the first k whose response contains a score
Scored(k) == {j \in 1..k : Has(submitted[j].response, "score")}
ScoreOf(j) == submitted[j].response["score"]

\* The retained pair is the best by score of the first k variations, the
\* earliest one on ties; nothing is retained when none of them has a score
BestOfFirst(k) ==
    IF Scored(k) = {}
    THEN best_score = NegInf /\ best_input = None
    ELSE \E j \in Scored(k) :
            /\ \A other \in Scored(k) : ScoreOf(other) <= ScoreOf(j)
            /\ \A earlier \in Scored(k) : earlier < j => ScoreOf(earlier) < ScoreOf(j)
            /\ best_score = Num(ScoreOf(j))
            /\ best_input = submitted[j].game_input

\* C4: the variations run one after the other, each generated and submitted
\* once, and after every completed variation k the retained pair is the best
\* by score so far: best_score is the maximum score of the variations 1..k
\* that have one, and best_input is the GameInput submitted in the earliest
\* variation that obtained it.
C4_BestSoFar ==
    (InLoop /\ pc \in {"loop", "returned"}) =>
       /\ Len(submitted) = i
       /\ attempts = i
       /\ \A j \in 1..i : submitted[j].variation = j
       /\ BestOfFirst(i)
       /\ pc = "returned" =>
             /\ i = num_variations
             /\ ret = Ok([best_input |-> best_input, best_score |-> best_score])

\* Two variations with different GameInputs and the same score: the first
\* is retained
C4_Witness ==
    /\ InLoop
    /\ pc = "loop"
    /\ i = 2
    /\ Scored(2) = {1, 2}
    /\ ScoreOf(1) = ScoreOf(2)
    /\ submitted[1].game_input # submitted[2].game_input
    /\ best_input = submitted[1].game_input

SubmissionFailed == InLoop /\ pc = "raised" /\ ret = Raise("SubmissionError")

\* After a failed submission: no response is recorded for the variation and
\* the retained pair is still the best of the variations before it
C5_State ==
    SubmissionFailed =>
       /\ Len(submitted) = i
       /\ attempts = i + 1
       /\ BestOfFirst(i)

\* A submit_to_api call that records no response leaves the loop with the
\* error; nothing runs after an error; each variation submits once
C5_Step ==
    InLoop =>
       /\ pc # "raised"
       /\ (pc = "submit" /\ submitted' = submitted) =>
             /\ pc' = "raised"
             /\ ret' = Raise("SubmissionError")
             /\ i' = i /\ best_score' = best_score /\ best_input' = best_input
       /\ attempts' # attempts => (attempts = i /\ attempts' = i + 1)

\* C5: a failing submit_to_api is neither suppressed nor retried: the error
\* reaches the caller of test_multiple_variations, the variation is aborted
\* with no score recorded for it, and it never becomes the retained best.
C5_SubmissionErrorSurfaces == [](C5_State) /\ [][C5_Step]_vars

\* The second variation's submission fails while the first is retained
C5_Witness ==
    /\ SubmissionFailed
    /\ i = 1
    /\ best_input = submitted[1].game_input
    /\ best_score = Num(ScoreOf(1))

=============================================================================
